---- MODULE Spec2Model ----
(***************************************************************************)
(* A model of druid-game: the combat core, that is Health, Combatant,      *)
(* Weapon (combatant.rs, weapon.rs), the battle resolver (battle.rs) and   *)
(* the reference turn sequence combat_example / attack / damage_step       *)
(* (lib.rs); and, outside it, the ServiceContainer (service/container.rs), *)
(* the InputManager implementations, Bitmap (render/bitmap.rs), the asset  *)
(* loaders of the two frontends and the app's run and game loop (app.rs).  *)
(*                                                                         *)
(* Several drivers share the module.  Each behaviour runs exactly one of   *)
(* them (variable scenario); the variables of the others stay idle.        *)
(*   "health"    one Health value under damage / check_status calls        *)
(*   "battle"    two Combatants and calls of the three resolver functions  *)
(*   "combat"    the three-turn sequence of combat_example                 *)
(*   "attack"    one attack call on two combatants of any loadout          *)
(*   "limits"    the resolver functions at the ends of the i32 range       *)
(*   "equip"     give_weapon calls on one Combatant, with their history    *)
(*   "services"  register_X / X_mut calls on a ServiceContainer            *)
(*   "input"     request_close / is_requesting_close on an InputManager    *)
(*   "bitmap"    the two Bitmap constructors                               *)
(*   "loader"    LocalAssetLoader::load_bitmap on a path                   *)
(*   "app"       run with its game loop on a ServiceContainer              *)
(*   "future"    grab_image awaiting an ImageFuture in the browser         *)
(***************************************************************************)
EXTENDS Integers, Sequences, FiniteSets, TLC

VARIABLES
    scenario,         \* which driver this behaviour runs
    overflow_checks,  \* build profile: TRUE = i32 overflow panics, FALSE = wraps
    health,           \* the Health value under test: [current, max]
    h_op,             \* the last Health operation: "idle", "new", "damage", "check_status"
    h_arg,            \* the argument of the last damage call
    h_ret,            \* the HealthStatus the last call returned ("None" if none)
    h_err,            \* "none", or the panic that ended the run
    h_calls,          \* number of damage calls made so far
    attacker,         \* driver "battle": the attacking Combatant
    defender,         \* driver "battle": the defending Combatant
    b_call,           \* the last resolver function called, "none" if none
    b_dice,           \* the dice_roll argument of the last resolve_attack call
    b_arg,            \* the attack_result argument of the last calculate_damage call
    b_opt,            \* the Option<i32> the last call returned: <<>> or <<v>>
    b_res,            \* the AttackResult the last call returned ("None" if none)
    b_panic,          \* the last call panicked
    given,            \* driver "equip": the weapons handed to attacker.give_weapon, in order
    hero_alice,       \* driver "combat": combat_example's first Combatant
    villain_vim,      \* driver "combat": combat_example's second Combatant
    c_turn,           \* index of the current attack call in combat_example
    c_pc,             \* position inside attack / damage_step, or "idle", "done", "panic"
    c_result,         \* attack's local attack_result ("None" before it is set)
    c_damage,         \* damage_step's Option<i32> from calculate_damage
    c_status,         \* damage_step's local status ("None" before it is set)
    log,              \* the lines printed so far
    container,        \* driver "services": the ServiceContainer, four Option slots
    s_op,             \* the last container call: "none", "register", "mut"
    s_slot,           \* the slot the last call was made on ("None" if none)
    s_arg,            \* the service handed to the last register call ("None" if none)
    s_ret,            \* "Ok" or the error the last call returned ("None" if none)
    s_got,            \* the service the last X_mut call returned: <<>> or <<service>>
    s_first,          \* per slot, the service of the first register call that returned Ok
    manager,          \* driver "input": the InputManager, [kind, requesting_close]
    window,           \* the minifb Window it reads: [open, key_escape]
    i_op,             \* the last InputManager call: "none", "request_close", "is_requesting_close"
    i_ret,            \* what the last is_requesting_close returned: <<>> or <<bool>>
    i_requested,      \* request_close has been called
    bitmap,           \* driver "bitmap": the last Bitmap built, <<>> before the first
    m_op,             \* the constructor that built it: "none", "new", "from_framebuffer"
    l_file,           \* driver "loader": what the file system holds at the path given
    l_ret,            \* what load_bitmap returned: <<>> before the call, else <<[ret, bitmap]>>
    services,         \* driver "app": the ServiceContainer handed to run
    a_pc,             \* position inside run and the game loop, or how run ended
    a_exit,           \* the game loop's exit flag, set by g.exit()
    f_src,            \* driver "future": what the path handed to grab_image leads to
    f_state,          \* the image element's request: "pending", "available", "broken"
    f_handlers,       \* onload and onerror are set on the image element
    f_image,          \* ImageFuture.image is Some
    f_load_failed,    \* ImageFuture.load_failed
    f_woken,          \* the waker has been called since the last poll
    f_out,            \* the last poll's result: "None", "Pending", "Ok", "Err"
    g_ret             \* what grab_image returned ("None" while it is awaiting)

hvars == <<health, h_op, h_arg, h_ret, h_err, h_calls>>
cvars == <<hero_alice, villain_vim, c_turn, c_pc, c_result, c_damage, c_status, log>>
bvars == <<attacker, defender, b_call, b_dice, b_arg, b_opt, b_res, b_panic>>

svars == <<container, s_op, s_slot, s_arg, s_ret, s_got, s_first>>

ivars == <<manager, window, i_op, i_ret, i_requested>>

mvars == <<bitmap, m_op>>

lvars == <<l_file, l_ret>>

avars == <<services, a_pc, a_exit>>

fvars == <<f_src, f_state, f_handlers, f_image, f_load_failed, f_woken, f_out, g_ret>>

\* the variables of the drivers of the application shell
yvars == <<lvars, avars, fvars>>

\* the variables of the drivers outside the combat core
xvars == <<svars, ivars, mvars, yvars>>

vars == <<scenario, overflow_checks, hvars, bvars, given, cvars, xvars>>

(***************************************************************************)
(* i32 arithmetic.  The values are kept inside [I32_MIN, I32_MAX]; the     *)
(* wrapped results are computed without leaving that range.                *)
(***************************************************************************)
I32_MAX == 2147483647
I32_MIN == -2147483647 - 1

\* a - b leaves the i32 range
SubOverflows(a, b) ==
    \/ b > 0 /\ a < I32_MIN + b
    \/ b < 0 /\ a > I32_MAX + b

\* a - b modulo 2^32, as a two's complement i32
WrapSub(a, b) ==
    IF b > 0 /\ a < I32_MIN + b THEN ((a - I32_MIN) + (I32_MAX - b)) + 1
    ELSE IF b < 0 /\ a > I32_MAX + b THEN ((a - I32_MAX) + (I32_MIN - b)) - 1
    ELSE a - b

\* a + b leaves the i32 range
AddOverflows(a, b) ==
    \/ b > 0 /\ a > I32_MAX - b
    \/ b < 0 /\ a < I32_MIN - b

\* a + b modulo 2^32, as a two's complement i32
WrapAdd(a, b) ==
    IF b > 0 /\ a > I32_MAX - b THEN ((a - I32_MAX) + (b + I32_MIN)) - 1
    ELSE IF b < 0 /\ a < I32_MIN - b THEN ((a - I32_MIN) + (b + I32_MAX)) + 1
    ELSE a + b

\* `a -= b` on i32: panics on overflow when the build checks, wraps otherwise
I32Sub(a, b, checks) ==
    IF SubOverflows(a, b) /\ checks
    THEN [panic |-> TRUE, val |-> 0]
    ELSE [panic |-> FALSE, val |-> WrapSub(a, b)]

\* `a += b` on i32
I32Add(a, b, checks) ==
    IF AddOverflows(a, b) /\ checks
    THEN [panic |-> TRUE, val |-> 0]
    ELSE [panic |-> FALSE, val |-> WrapAdd(a, b)]

\* Ord::clamp: asserts min <= max, then bounds the value
I32Clamp(v, lo, hi) ==
    IF lo > hi
    THEN [panic |-> TRUE, val |-> v]
    ELSE [panic |-> FALSE, val |-> IF v < lo THEN lo ELSE IF v > hi THEN hi ELSE v]

(***************************************************************************)
(* Health (combatant.rs)                                                   *)
(***************************************************************************)
HealthStatus == {"Healthy", "Hurt", "Defeated"}

Health_new(max) == [current |-> max, max |-> max]

\* check_status comparing with > : a health at its maximum is not Healthy
Health_check_status_gt(h) ==
    IF h.current > h.max THEN "Healthy"
    ELSE IF h.current <= 0 THEN "Defeated"
    ELSE "Hurt"

\* check_status comparing with < 0 : a health of exactly 0 is not Defeated
Health_check_status_lt(h) ==
    IF h.current >= h.max THEN "Healthy"
    ELSE IF h.current < 0 THEN "Defeated"
    ELSE "Hurt"

Health_check_status(h) ==
    IF h.current >= h.max THEN "Healthy"
    ELSE IF h.current <= 0 THEN "Defeated"
    ELSE "Hurt"

\* clamp that bounds from below only
Health_clamp_low(h) ==
    [panic |-> 0 > h.max,
     health |-> [h EXCEPT !.current = IF h.current < 0 THEN 0 ELSE h.current]]

\* clamp(&mut self): the health with current bounded to 0..max, or the panic
Health_clamp(h) ==
    LET c == I32Clamp(h.current, 0, h.max)
    IN [panic |-> c.panic, health |-> [h EXCEPT !.current = c.val]]

\* damage without its clamp call
Health_damage_noclamp(h, damage, checks) ==
    LET sub == I32Sub(h.current, damage, checks)
    IN IF sub.panic
       THEN [err |-> "overflow", health |-> h, status |-> "None"]
       ELSE [err |-> "none", health |-> [h EXCEPT !.current = sub.val],
             status |-> Health_check_status([h EXCEPT !.current = sub.val])]

\* damage in which a blow past zero comes back up: |current - damage|, clamped
Health_damage_abs(h, damage, checks) ==
    LET sub == I32Sub(h.current, damage, checks)
        abs == IF sub.val >= 0 THEN sub.val
               ELSE IF sub.val = I32_MIN THEN I32_MAX ELSE 0 - sub.val
    IN IF sub.panic
       THEN [err |-> "overflow", health |-> h, status |-> "None"]
       ELSE LET c == Health_clamp([h EXCEPT !.current = abs])
            IN IF c.panic
               THEN [err |-> "clamp_assert", health |-> c.health, status |-> "None"]
               ELSE [err |-> "none", health |-> c.health,
                     status |-> Health_check_status(c.health)]

\* damage(&mut self, damage): subtract, clamp, classify.  The result names
\* the panic that ended the call if any, the health the call leaves and the
\* status returned.
Health_damage(h, damage, checks) ==
    LET sub == I32Sub(h.current, damage, checks)
    IN IF sub.panic
       THEN [err |-> "overflow", health |-> h, status |-> "None"]
       ELSE LET c == Health_clamp([h EXCEPT !.current = sub.val])
            IN IF c.panic
               THEN [err |-> "clamp_assert", health |-> c.health, status |-> "None"]
               ELSE [err |-> "none", health |-> c.health,
                     status |-> Health_check_status(c.health)]

(***************************************************************************)
(* Weapon (weapon.rs), CombatStats and Combatant (combatant.rs)            *)
(* An Option is a sequence of length at most one: <<>> is None.            *)
(***************************************************************************)
Weapon_new(name, hit_rate, damage) ==
    [damage |-> damage, name |-> name, hit_rate |-> hit_rate]

CombatStats_new == [accuracy |-> 0, evasion |-> 0, strength |-> 0, defense |-> 0]

\* a constructor that equips a default weapon
Combatant_new_fists(name) ==
    [name |-> name,
     stats |-> CombatStats_new,
     health |-> Health_new(10),
     current_weapon |-> <<Weapon_new("Fists", 100, 1)>>]

Combatant_new(name) ==
    [name |-> name,
     stats |-> CombatStats_new,
     health |-> Health_new(10),
     current_weapon |-> <<>>]

current_weapon(c) == c.current_weapon

\* give_weapon that equips only an empty hand
give_weapon_if_none(c, weapon) ==
    IF c.current_weapon = <<>> THEN [c EXCEPT !.current_weapon = <<weapon>>] ELSE c

give_weapon(c, weapon) == [c EXCEPT !.current_weapon = <<weapon>>]

(***************************************************************************)
(* The battle resolver (battle.rs).  Each function yields [panic, ret].    *)
(***************************************************************************)
AttackResult == {"DirectHit", "GlancingBlow", "Miss", "NoWeapon"}

\* calculate_hit_rate with the result bounded to 0..100
calculate_hit_rate_clamped(att, def, checks) ==
    IF current_weapon(att) = <<>>
    THEN [panic |-> FALSE, ret |-> <<>>]
    ELSE LET weapon == current_weapon(att)[1]
             plus == I32Add(weapon.hit_rate, att.stats.accuracy, checks)
             minus == I32Sub(plus.val, def.stats.evasion, checks)
         IN IF plus.panic \/ minus.panic
            THEN [panic |-> TRUE, ret |-> <<>>]
            ELSE [panic |-> FALSE, ret |-> <<I32Clamp(minus.val, 0, 100).val>>]

\* calculate_hit_rate: None without a weapon, else
\* weapon.hit_rate += attacker accuracy, -= defender evasion, in i32
calculate_hit_rate(att, def, checks) ==
    IF current_weapon(att) = <<>>
    THEN [panic |-> FALSE, ret |-> <<>>]
    ELSE LET weapon == current_weapon(att)[1]
             plus == I32Add(weapon.hit_rate, att.stats.accuracy, checks)
             minus == I32Sub(plus.val, def.stats.evasion, checks)
         IN IF plus.panic \/ minus.panic
            THEN [panic |-> TRUE, ret |-> <<>>]
            ELSE [panic |-> FALSE, ret |-> <<minus.val>>]

\* resolve_attack with the comparison turned round
resolve_attack_swapped(dice_roll, att, def, checks) ==
    IF Len(current_weapon(att)) = 0
    THEN [panic |-> FALSE, ret |-> "NoWeapon"]
    ELSE LET hr == calculate_hit_rate(att, def, checks)
         IN IF hr.panic THEN [panic |-> TRUE, ret |-> "None"]
            ELSE IF hr.ret = <<>> THEN [panic |-> FALSE, ret |-> "Miss"]
            ELSE IF dice_roll >= hr.ret[1] THEN [panic |-> FALSE, ret |-> "DirectHit"]
            ELSE [panic |-> FALSE, ret |-> "GlancingBlow"]

\* resolve_attack with a strict comparison: a tie is a glancing blow
resolve_attack_lt(dice_roll, att, def, checks) ==
    IF Len(current_weapon(att)) = 0
    THEN [panic |-> FALSE, ret |-> "NoWeapon"]
    ELSE LET hr == calculate_hit_rate(att, def, checks)
         IN IF hr.panic THEN [panic |-> TRUE, ret |-> "None"]
            ELSE IF hr.ret = <<>> THEN [panic |-> FALSE, ret |-> "Miss"]
            ELSE IF dice_roll < hr.ret[1] THEN [panic |-> FALSE, ret |-> "DirectHit"]
            ELSE [panic |-> FALSE, ret |-> "GlancingBlow"]

\* resolve_attack without its leading weapon check
resolve_attack_nocheck(dice_roll, att, def, checks) ==
    LET hr == calculate_hit_rate(att, def, checks)
    IN IF hr.panic THEN [panic |-> TRUE, ret |-> "None"]
       ELSE IF hr.ret = <<>> THEN [panic |-> FALSE, ret |-> "Miss"]
       ELSE IF dice_roll <= hr.ret[1] THEN [panic |-> FALSE, ret |-> "DirectHit"]
       ELSE [panic |-> FALSE, ret |-> "GlancingBlow"]

\* resolve_attack in which a hit rate of zero or less is a Miss
resolve_attack_miss(dice_roll, att, def, checks) ==
    IF Len(current_weapon(att)) = 0
    THEN [panic |-> FALSE, ret |-> "NoWeapon"]
    ELSE LET hr == calculate_hit_rate(att, def, checks)
         IN IF hr.panic THEN [panic |-> TRUE, ret |-> "None"]
            ELSE IF hr.ret = <<>> \/ hr.ret[1] <= 0 THEN [panic |-> FALSE, ret |-> "Miss"]
            ELSE IF dice_roll <= hr.ret[1] THEN [panic |-> FALSE, ret |-> "DirectHit"]
            ELSE [panic |-> FALSE, ret |-> "GlancingBlow"]

\* resolve_attack: NoWeapon without a weapon; Miss if calculate_hit_rate
\* gives None; DirectHit if dice_roll <= hit_rate; GlancingBlow otherwise
resolve_attack(dice_roll, att, def, checks) ==
    IF Len(current_weapon(att)) = 0
    THEN [panic |-> FALSE, ret |-> "NoWeapon"]
    ELSE LET hr == calculate_hit_rate(att, def, checks)
         IN IF hr.panic THEN [panic |-> TRUE, ret |-> "None"]
            ELSE IF hr.ret = <<>> THEN [panic |-> FALSE, ret |-> "Miss"]
            ELSE IF dice_roll <= hr.ret[1] THEN [panic |-> FALSE, ret |-> "DirectHit"]
            ELSE [panic |-> FALSE, ret |-> "GlancingBlow"]

\* An f64 that holds an i32 times 1.0 or 0.5 is kept exactly, as num/den.
I32ToF64(i) == [num |-> i, den |-> 1]

F64Mul(x, y) == [num |-> x.num * y.num, den |-> x.den * y.den]

\* a cast that rounds toward negative infinity
F64ToI32_floor(x) == x.num \div x.den

\* `x as i32`: the fraction is dropped (rounding toward zero).  The values
\* here are an i32 times at most 1.0, so the cast never saturates.
F64ToI32(x) ==
    IF x.num >= 0 THEN x.num \div x.den
    ELSE (x.num + (x.den - 1)) \div x.den

\* a multiplier of 0.0 for Miss instead of the early return
Multiplier_miss(attack_result) ==
    CASE attack_result = "Miss" -> <<[num |-> 0, den |-> 1]>>
      [] attack_result = "NoWeapon" -> <<>>
      [] attack_result = "DirectHit" -> <<[num |-> 1, den |-> 1]>>
      [] attack_result = "GlancingBlow" -> <<[num |-> 1, den |-> 2]>>

\* the attack effectiveness multiplier; <<>> where the function returns None
Multiplier(attack_result) ==
    CASE attack_result = "Miss" -> <<>>
      [] attack_result = "NoWeapon" -> <<>>
      [] attack_result = "DirectHit" -> <<[num |-> 1, den |-> 1]>>
      [] attack_result = "GlancingBlow" -> <<[num |-> 1, den |-> 2]>>

\* calculate_damage that never goes below zero
calculate_damage_nonneg(attack_result, att, def, checks) ==
    IF Multiplier(attack_result) = <<>>
    THEN [panic |-> FALSE, ret |-> <<>>]
    ELSE IF current_weapon(att) = <<>>
    THEN [panic |-> FALSE, ret |-> <<>>]
    ELSE LET weapon == current_weapon(att)[1]
             plus == I32Add(weapon.damage, att.stats.strength, checks)
             minus == I32Sub(plus.val, def.stats.defense, checks)
             damage == F64Mul(I32ToF64(minus.val), Multiplier(attack_result)[1])
         IN IF plus.panic \/ minus.panic
            THEN [panic |-> TRUE, ret |-> <<>>]
            ELSE [panic |-> FALSE,
                  ret |-> <<IF F64ToI32(damage) < 0 THEN 0 ELSE F64ToI32(damage)>>]

\* calculate_damage in which bare hands deal strength - defense
calculate_damage_fists(attack_result, att, def, checks) ==
    IF Multiplier(attack_result) = <<>>
    THEN [panic |-> FALSE, ret |-> <<>>]
    ELSE LET weapon_damage == IF current_weapon(att) = <<>> THEN 0
                              ELSE current_weapon(att)[1].damage
             plus == I32Add(weapon_damage, att.stats.strength, checks)
             minus == I32Sub(plus.val, def.stats.defense, checks)
             damage == F64Mul(I32ToF64(minus.val), Multiplier(attack_result)[1])
         IN IF plus.panic \/ minus.panic
            THEN [panic |-> TRUE, ret |-> <<>>]
            ELSE [panic |-> FALSE, ret |-> <<F64ToI32(damage)>>]

\* calculate_damage: None for Miss, NoWeapon or no weapon; else
\* ((weapon.damage + strength - defense) as f64 * multiplier) as i32
calculate_damage(attack_result, att, def, checks) ==
    IF Multiplier(attack_result) = <<>>
    THEN [panic |-> FALSE, ret |-> <<>>]
    ELSE IF current_weapon(att) = <<>>
    THEN [panic |-> FALSE, ret |-> <<>>]
    ELSE LET weapon == current_weapon(att)[1]
             plus == I32Add(weapon.damage, att.stats.strength, checks)
             minus == I32Sub(plus.val, def.stats.defense, checks)
             damage == F64Mul(I32ToF64(minus.val), Multiplier(attack_result)[1])
         IN IF plus.panic \/ minus.panic
            THEN [panic |-> TRUE, ret |-> <<>>]
            ELSE [panic |-> FALSE, ret |-> <<F64ToI32(damage)>>]

(***************************************************************************)
(* ServiceContainer (service/container.rs).  A registered service is kept  *)
(* as an identifier; each call yields [ret, container] or [ret, service].  *)
(***************************************************************************)
Slots == {"asset_loader", "render_context", "input_manager", "vfc"}

ServiceContainer_new ==
    [asset_loader |-> <<>>, render_context |-> <<>>,
     input_manager |-> <<>>, vfc |-> <<>>]

register_asset_loader(c, asset_loader) ==
    IF c.asset_loader # <<>>
    THEN [ret |-> "AlreadyRegisteredError", container |-> c]
    ELSE [ret |-> "Ok", container |-> [c EXCEPT !.asset_loader = <<asset_loader>>]]

asset_loader_mut(c) ==
    IF c.asset_loader = <<>>
    THEN [ret |-> "NotYetRegisteredError", service |-> <<>>]
    ELSE [ret |-> "Ok", service |-> c.asset_loader]

register_render_context(c, render_context) ==
    IF c.render_context # <<>>
    THEN [ret |-> "AlreadyRegisteredError", container |-> c]
    ELSE [ret |-> "Ok", container |-> [c EXCEPT !.render_context = <<render_context>>]]

render_context_mut(c) ==
    IF c.render_context = <<>>
    THEN [ret |-> "NotYetRegisteredError", service |-> <<>>]
    ELSE [ret |-> "Ok", service |-> c.render_context]

register_input_manager(c, input_manager) ==
    IF c.input_manager # <<>>
    THEN [ret |-> "AlreadyRegisteredError", container |-> c]
    ELSE [ret |-> "Ok", container |-> [c EXCEPT !.input_manager = <<input_manager>>]]

input_manager_mut(c) ==
    IF c.input_manager = <<>>
    THEN [ret |-> "NotYetRegisteredError", service |-> <<>>]
    ELSE [ret |-> "Ok", service |-> c.input_manager]

\* register_vfc that reports the error and replaces the service all the same
register_vfc_overwrite(c, vfc) ==
    [ret |-> IF c.vfc # <<>> THEN "AlreadyRegisteredError" ELSE "Ok",
     container |-> [c EXCEPT !.vfc = <<vfc>>]]

register_vfc(c, vfc) ==
    IF c.vfc # <<>>
    THEN [ret |-> "AlreadyRegisteredError", container |-> c]
    ELSE [ret |-> "Ok", container |-> [c EXCEPT !.vfc = <<vfc>>]]

\* vfc_mut that reads the render_context slot
vfc_mut_render_slot(c) ==
    IF c.render_context = <<>>
    THEN [ret |-> "NotYetRegisteredError", service |-> <<>>]
    ELSE [ret |-> "Ok", service |-> c.render_context]

vfc_mut(c) ==
    IF c.vfc = <<>>
    THEN [ret |-> "NotYetRegisteredError", service |-> <<>>]
    ELSE [ret |-> "Ok", service |-> c.vfc]

\* the register_X and X_mut of a slot
register(c, slot, service) ==
    CASE slot = "asset_loader" -> register_asset_loader(c, service)
      [] slot = "render_context" -> register_render_context(c, service)
      [] slot = "input_manager" -> register_input_manager(c, service)
      [] slot = "vfc" -> register_vfc(c, service)

slot_mut(c, slot) ==
    CASE slot = "asset_loader" -> asset_loader_mut(c)
      [] slot = "render_context" -> render_context_mut(c)
      [] slot = "input_manager" -> input_manager_mut(c)
      [] slot = "vfc" -> vfc_mut(c)

(***************************************************************************)
(* InputManager: WindowInputManager (minifb-frontend/src/input_manager.rs) *)
(* and WebInputManager (wasm-frontend/src/input.rs).  The minifb Window is *)
(* [open, key_escape]: is_open() and is_key_down(Key::Escape).             *)
(***************************************************************************)
WindowInputManager_create == [kind |-> "window", requesting_close |-> FALSE]

WebInputManager_create == [kind |-> "web", requesting_close |-> FALSE]

\* is_requesting_close that looks at the window only
is_requesting_close_window_only(m, w) ==
    IF m.kind = "window"
    THEN ~(w.open /\ ~w.key_escape)
    ELSE m.requesting_close

is_requesting_close(m, w) ==
    IF m.kind = "window"
    THEN m.requesting_close \/ ~(w.open /\ ~w.key_escape)
    ELSE m.requesting_close

request_close(m) == [m EXCEPT !.requesting_close = TRUE]

(***************************************************************************)
(* Bitmap (render/bitmap.rs): [width, height, colors], colors a sequence.  *)
(***************************************************************************)
Bitmap_new(width, height, colors) ==
    [width |-> width, height |-> height, colors |-> colors]

\* buffer.to_vec() copies the slice element by element
Bitmap_from_framebuffer(width, height, buffer) ==
    [width |-> width, height |-> height,
     colors |-> [i \in 1..Len(buffer) |-> buffer[i]]]

colors_ref(b) == b.colors

(***************************************************************************)
(* LocalAssetLoader (minifb-frontend/src/asset_loader.rs).  A file is what *)
(* the file system holds at the path: nothing ("missing"), bytes that are  *)
(* no image ("corrupt"), or an image of width x height RGBA pixels, each a *)
(* record [color, alpha].  A result is [ret, bitmap] with ret "Ok",        *)
(* "ResourceNotFound" or "OtherError" and bitmap the Option of the value.  *)
(***************************************************************************)
MissingFile == [kind |-> "missing", width |-> 0, height |-> 0, pixels |-> <<>>]

CorruptFile == [kind |-> "corrupt", width |-> 0, height |-> 0, pixels |-> <<>>]

\* Reader::open(path) is Ok when the file can be opened
Reader_open(file) == file.kind # "missing"

\* reader.decode() is Ok when the bytes are an image
Reader_decode(file) == file.kind = "image"

\* let [r, g, b, _a] = pixel.0; Rgb::new(r, g, b)
Rgb_of_pixel(pixel) == pixel.color

LoadError_Other == [bitmap |-> <<>>, ret |-> "OtherError"]

\* the error the trait documents for a path with no resource
LoadError_NotFound == [bitmap |-> <<>>, ret |-> "ResourceNotFound"]

load_bitmap(file) ==
    IF ~Reader_open(file) THEN LoadError_Other
    ELSE IF ~Reader_decode(file) THEN LoadError_Other
    ELSE [ret |-> "Ok",
          bitmap |-> <<Bitmap_new(file.width, file.height,
                         [i \in 1..Len(file.pixels) |-> Rgb_of_pixel(file.pixels[i])])>>]

(***************************************************************************)
(* The app (app.rs).  update and render are the bodies of the two          *)
(* functions the game loop's callbacks call; what the services answer      *)
(* (is_requesting_close, draw) is an argument.                             *)
(***************************************************************************)

\* update: Err if no input manager is registered (`?`), else Ok, asking
\* the loop to exit when the input manager requests a close
update(c, requesting_close) ==
    IF input_manager_mut(c).ret # "Ok"
    THEN [ret |-> "Err", exit |-> FALSE]
    ELSE [ret |-> "Ok", exit |-> requesting_close]

\* render: vfc_mut().expect(..), render_frame, Bitmap::from_framebuffer,
\* render_context_mut().expect(..), draw; a failed expect is a panic
render(c, draw_ok) ==
    IF vfc_mut(c).ret # "Ok"
    THEN [panic |-> TRUE, ret |-> "None"]
    ELSE IF render_context_mut(c).ret # "Ok"
    THEN [panic |-> TRUE, ret |-> "None"]
    ELSE [panic |-> FALSE, ret |-> IF draw_ok THEN "Ok" ELSE "Err"]

(***************************************************************************)
(* ImageFuture and grab_image (wasm-frontend/src/loading.rs).  The image   *)
(* element is its src ("image": a resource that loads, "cached": one the   *)
(* browser already holds, "missing": one that cannot be fetched, "empty":  *)
(* the empty string) and the state of its request.                         *)
(***************************************************************************)

\* the request of a new image element once set_src(path) has returned: an
\* image the browser already holds is available at once, anything else is
\* settled by a later task
Image_set_src(src) == IF src = "cached" THEN "available" ELSE "pending"

\* HtmlImageElement.complete: true when src is the empty string, or the
\* request is completely available or broken
Image_complete(src, state) ==
    src = "empty" \/ state \in {"available", "broken"}

\* ImageFuture::poll on the fields image (is Some) and load_failed, given
\* what image.complete() answers: the Poll it returns, whether image is
\* still Some, and whether it set onload and onerror
ImageFuture_poll(image, load_failed, is_complete) ==
    IF image /\ is_complete
    THEN [out |-> IF load_failed THEN "Err" ELSE "Ok",
          image |-> FALSE, set_handlers |-> FALSE]
    ELSE IF image
    THEN [out |-> "Pending", image |-> TRUE, set_handlers |-> TRUE]
    ELSE [out |-> "Err", image |-> FALSE, set_handlers |-> FALSE]

\* what the canvas half of grab_image can end in for an image in this
\* state: a CanvasError (no canvas, wrong context type, draw error), a
\* panic in one of the unwraps of get_context and get_image_data, or, for
\* an available image only, the Bitmap read back
CanvasOutcomes(state) ==
    IF state = "available" THEN {"Ok", "CanvasError", "panic"}
    ELSE {"CanvasError", "panic"}

(***************************************************************************)
(* Bounds and input sets                                                   *)
(***************************************************************************)
MaxCalls == 3

\* give_weapon calls made on one combatant in driver "equip"
MaxGiven == 2

\* maximum healths handed to Health::new
MaxValues == {-5, 0, 1, 3, 10, I32_MAX}

\* amounts handed to Health::damage: both signs, small and extreme
Amounts == {I32_MIN, -I32_MAX, -7, -1, 0, 1, 3, 5, 7, 10, 11, I32_MAX}

\* weapons handed to give_weapon: the doctests' and combat_example's, one
\* whose hit rate passes 100 and one with a negative hit rate and damage
Weapons ==
    { Weapon_new("Dummy Weapon", 50, 10),
      Weapon_new("Longsword", 70, 8),
      Weapon_new("Sure Shot", 110, 5),
      Weapon_new("Broken Stick", -5, -3) }

\* values written to the stats the resolver reads
StatValues == {-10, 0, 5}

\* values written to the stats the resolver does not read
OtherStatValues == {0, 7}

\* the drivers in which attack runs
TurnScenarios == {"combat", "attack"}

\* the attacks combat_example makes, in order, as <<attacker, defender>>
Turns ==
    << <<"hero_alice", "villain_vim">>,
       <<"villain_vim", "hero_alice">>,
       <<"hero_alice", "villain_vim">> >>

\* attack's `let dice_roll = 50`
DiceRoll == 50

\* a heavier sword than combat_example hands out: one blow defeats
Longsword_heavy == Weapon_new("Longsword", 70, 10)

\* a duller sword than combat_example hands out
Longsword_dull == Weapon_new("Longsword", 70, 7)

\* the weapon combat_example gives to both combatants
Longsword == Weapon_new("Longsword", 70, 8)

\* weapons an attack call is made with: combat_example's own, a stronger
\* one, and one whose hit rate is under the fixed roll
CombatWeapons ==
    { Longsword,
      Weapon_new("Greatsword", 70, 10),
      Weapon_new("Dagger", 40, 8) }

\* what a combatant handed to attack holds: nothing, or a weapon
Loadouts == {<<>>} \cup {<<w>> : w \in CombatWeapons}

\* the health of a combatant handed to attack: as built, or after the
\* damage(8) of one Longsword hit
AttackHealths ==
    {Health_new(10), Health_damage(Health_new(10), Longsword.damage, FALSE).health}

\* dice rolls handed to resolve_attack: the 1..100 range, its ends, outside
DiceRolls == {0, 1, 40, 50, 60, 100, 101}

\* driver "limits": weapons, stat values and rolls at the ends of the i32 range
LimitWeapons ==
    { Weapon_new("Dummy Weapon", 50, 10),
      Weapon_new("Highest", I32_MAX, I32_MAX),
      Weapon_new("Lowest", I32_MIN, I32_MIN) }

LimitLoadouts == {<<>>} \cup {<<w>> : w \in LimitWeapons}

LimitStats == {I32_MIN, -1, 0, 1, I32_MAX}

LimitDiceRolls == {I32_MIN, 1, 100, I32_MAX}

\* driver "bitmap": the largest width and height, the longest color buffer
MaxDim == 2

MaxLen == 4

\* the Rgb values a buffer is made of
Colors == {"black", "white"}

\* the color vectors and framebuffer slices handed to the constructors
Buffers == UNION {[1..n -> Colors] : n \in 0..MaxLen}

\* driver "loader": the RGBA pixels, sizes and files at the path handed to load_bitmap
Pixels == [color : Colors, alpha : {0, 255}]

ImageSizes == {<<1, 1>>, <<2, 1>>, <<1, 2>>}

ImageFiles ==
    UNION {{[kind |-> "image", width |-> d[1], height |-> d[2], pixels |-> px] :
              px \in [1..(d[1] * d[2]) -> Pixels]} : d \in ImageSizes}

Files == {MissingFile, CorruptFile} \cup ImageFiles

\* driver "future": what the path handed to grab_image leads to
Sources == {"image", "cached", "missing", "empty"}

\* driver "app": the containers handed to run, any subset of the four
\* services registered
Containers == [Slots -> {<<>>, <<"first">>}]

\* driver "services": the services offered to each slot, by identifier
Services == {"first", "second"}

(***************************************************************************)
(* Idle values of each driver's variables                                  *)
(***************************************************************************)
HealthIdle ==
    /\ health = Health_new(0)
    /\ h_op = "idle"
    /\ h_arg = 0
    /\ h_ret = "None"
    /\ h_err = "none"
    /\ h_calls = 0

NoCall ==
    /\ b_call = "none"
    /\ b_dice = 0
    /\ b_arg = "None"
    /\ b_opt = <<>>
    /\ b_res = "None"
    /\ b_panic = FALSE

CombatIdle ==
    /\ hero_alice = Combatant_new("")
    /\ villain_vim = Combatant_new("")
    /\ c_turn = 0
    /\ c_pc = "idle"
    /\ c_result = "None"
    /\ c_damage = <<>>
    /\ c_status = "None"
    /\ log = <<>>

LoaderIdle ==
    /\ l_file = MissingFile
    /\ l_ret = <<>>

AppIdle ==
    /\ services = ServiceContainer_new
    /\ a_pc = "idle"
    /\ a_exit = FALSE

FutureIdle ==
    /\ f_src = "image"
    /\ f_state = "pending"
    /\ f_handlers = FALSE
    /\ f_image = FALSE
    /\ f_load_failed = FALSE
    /\ f_woken = FALSE
    /\ f_out = "None"
    /\ g_ret = "None"

\* the drivers of the application shell are idle
YIdle == LoaderIdle /\ AppIdle /\ FutureIdle

\* what a driver of the application shell leaves alone outside the shell
NonShellVars == <<scenario, overflow_checks, hvars, bvars, given, cvars, svars, ivars, mvars>>

BitmapIdle ==
    /\ bitmap = <<>>
    /\ m_op = "none"

InputIdle ==
    /\ manager = WebInputManager_create
    /\ window = [open |-> TRUE, key_escape |-> FALSE]
    /\ i_op = "none"
    /\ i_ret = <<>>
    /\ i_requested = FALSE

ServicesIdle ==
    /\ container = ServiceContainer_new
    /\ s_op = "none"
    /\ s_slot = "None"
    /\ s_arg = "None"
    /\ s_ret = "None"
    /\ s_got = <<>>
    /\ s_first = ServiceContainer_new

\* the drivers outside the combat core are idle
XIdle == ServicesIdle /\ InputIdle /\ BitmapIdle /\ YIdle

BattleIdle ==
    /\ attacker = Combatant_new("")
    /\ defender = Combatant_new("")
    /\ NoCall
    /\ given = <<>>

\* the drivers of the combat core are idle
CoreIdle == HealthIdle /\ BattleIdle /\ CombatIdle

\* the drivers outside the application shell are idle
NonShellIdle == CoreIdle /\ ServicesIdle /\ InputIdle /\ BitmapIdle

(***************************************************************************)
(* Driver "health"                                                         *)
(***************************************************************************)
HealthInit ==
    /\ scenario = "health"
    /\ overflow_checks \in BOOLEAN
    /\ \E max \in MaxValues : health = Health_new(max)
    /\ h_op = "new"
    /\ h_arg = 0
    /\ h_ret = "None"
    /\ h_err = "none"
    /\ h_calls = 0
    /\ BattleIdle
    /\ CombatIdle
    /\ XIdle

HealthOthers == UNCHANGED <<scenario, overflow_checks, bvars, given, cvars, xvars>>

\* health.damage(amount)
DoDamage(amount) ==
    /\ scenario = "health"
    /\ h_err = "none"
    /\ h_calls < MaxCalls
    /\ LET r == Health_damage(health, amount, overflow_checks)
       IN /\ health' = r.health
          /\ h_ret' = r.status
          /\ h_err' = r.err
    /\ h_op' = "damage"
    /\ h_arg' = amount
    /\ h_calls' = h_calls + 1
    /\ HealthOthers

\* health.check_status()
DoCheckStatus ==
    /\ scenario = "health"
    /\ h_err = "none"
    /\ h_ret' = Health_check_status(health)
    /\ h_op' = "check_status"
    /\ UNCHANGED <<health, h_arg, h_err, h_calls>>
    /\ HealthOthers

HealthNext ==
    \/ \E amount \in Amounts : DoDamage(amount)
    \/ DoCheckStatus

(***************************************************************************)
(* Driver "battle": two combatants as the doctests build them; weapons     *)
(* are given, stats are written, and the resolver functions are called.    *)
(***************************************************************************)
BattleInit ==
    /\ scenario = "battle"
    /\ overflow_checks \in BOOLEAN
    /\ attacker = Combatant_new("Attacker")
    /\ defender = Combatant_new("Defender")
    /\ NoCall
    /\ given = <<>>
    /\ HealthIdle
    /\ CombatIdle
    /\ XIdle

BattleOthers == UNCHANGED <<scenario, overflow_checks, hvars, given, cvars, xvars>>

NoCallNext ==
    /\ b_call' = "none"
    /\ b_dice' = 0
    /\ b_arg' = "None"
    /\ b_opt' = <<>>
    /\ b_res' = "None"
    /\ b_panic' = FALSE

\* attacker.give_weapon(weapon)
GiveWeaponAttacker(weapon) ==
    /\ scenario = "battle" /\ ~b_panic
    /\ attacker' = give_weapon(attacker, weapon)
    /\ UNCHANGED defender
    /\ NoCallNext
    /\ BattleOthers

\* defender.give_weapon(weapon)
GiveWeaponDefender(weapon) ==
    /\ scenario = "battle" /\ ~b_panic
    /\ defender' = give_weapon(defender, weapon)
    /\ UNCHANGED attacker
    /\ NoCallNext
    /\ BattleOthers

\* attacker.stats.accuracy = v, attacker.stats.strength = v,
\* defender.stats.evasion = v or defender.stats.defense = v
SetStat(field, v) ==
    /\ scenario = "battle" /\ ~b_panic
    /\ \/ /\ field \in {"accuracy", "strength"}
          /\ attacker' = [attacker EXCEPT !.stats[field] = v]
          /\ UNCHANGED defender
       \/ /\ field \in {"evasion", "defense"}
          /\ defender' = [defender EXCEPT !.stats[field] = v]
          /\ UNCHANGED attacker
    /\ NoCallNext
    /\ BattleOthers

\* the stats that belong to the other role: the attacker's evasion and
\* defense, the defender's accuracy and strength
SetOtherStats(v) ==
    /\ scenario = "battle" /\ ~b_panic
    /\ attacker' = [attacker EXCEPT !.stats.evasion = v, !.stats.defense = v]
    /\ defender' = [defender EXCEPT !.stats.accuracy = v, !.stats.strength = v]
    /\ NoCallNext
    /\ BattleOthers

\* battle::calculate_hit_rate(&attacker, &defender)
CallCalculateHitRate ==
    /\ scenario = "battle" /\ ~b_panic
    /\ LET r == calculate_hit_rate(attacker, defender, overflow_checks)
       IN /\ b_opt' = r.ret
          /\ b_panic' = r.panic
    /\ b_call' = "calculate_hit_rate"
    /\ b_dice' = 0
    /\ b_arg' = "None"
    /\ b_res' = "None"
    /\ UNCHANGED <<attacker, defender>>
    /\ BattleOthers

\* battle::resolve_attack(dice_roll, &attacker, &defender)
CallResolveAttack(dice_roll) ==
    /\ scenario = "battle" /\ ~b_panic
    /\ LET r == resolve_attack(dice_roll, attacker, defender, overflow_checks)
       IN /\ b_res' = r.ret
          /\ b_panic' = r.panic
    /\ b_call' = "resolve_attack"
    /\ b_dice' = dice_roll
    /\ b_arg' = "None"
    /\ b_opt' = <<>>
    /\ UNCHANGED <<attacker, defender>>
    /\ BattleOthers

\* battle::calculate_damage(&attack_result, &attacker, &defender)
CallCalculateDamage(attack_result) ==
    /\ scenario = "battle" /\ ~b_panic
    /\ LET r == calculate_damage(attack_result, attacker, defender, overflow_checks)
       IN /\ b_opt' = r.ret
          /\ b_panic' = r.panic
    /\ b_call' = "calculate_damage"
    /\ b_dice' = 0
    /\ b_arg' = attack_result
    /\ b_res' = "None"
    /\ UNCHANGED <<attacker, defender>>
    /\ BattleOthers

BattleNext ==
    \/ \E weapon \in Weapons : GiveWeaponAttacker(weapon)
    \/ GiveWeaponDefender(Weapon_new("Longsword", 70, 8))
    \/ \E field \in {"accuracy", "strength", "evasion", "defense"} :
          \E v \in StatValues : SetStat(field, v)
    \/ \E v \in OtherStatValues : SetOtherStats(v)
    \/ CallCalculateHitRate
    \/ \E dice_roll \in DiceRolls : CallResolveAttack(dice_roll)
    \/ \E attack_result \in AttackResult : CallCalculateDamage(attack_result)

(***************************************************************************)
(* Driver "combat": combat_example, attack and damage_step (lib.rs).       *)
(* combat_example builds both combatants, gives each the Longsword and     *)
(* calls attack three times.  One attack call is the steps resolve_attack, *)
(* match and calculate_damage, health.damage, report.                      *)
(* Driver "attack": one call attack(attacker, defender) on its own, the    *)
(* two arguments being combatants with any loadout and a full or a         *)
(* damaged health; it takes the same steps and ends with the call.         *)
(***************************************************************************)
CombatInit ==
    /\ scenario = "combat"
    /\ overflow_checks \in BOOLEAN
    /\ hero_alice = give_weapon(Combatant_new("Alice"), Longsword)
    /\ villain_vim = give_weapon(Combatant_new("Vim"), Longsword)
    /\ c_turn = 1
    /\ c_pc = "attack"
    /\ c_result = "None"
    /\ c_damage = <<>>
    /\ c_status = "None"
    /\ log = <<>>
    /\ HealthIdle
    /\ BattleIdle
    /\ XIdle

\* attack(attacker, defender) is called once: the role of each combatant
\* is that of the first or of the second call of Turns
AttackInit ==
    /\ scenario = "attack"
    /\ overflow_checks \in BOOLEAN
    /\ \E wa \in Loadouts, ha \in AttackHealths :
          hero_alice = [Combatant_new("Alice") EXCEPT !.current_weapon = wa,
                                                      !.health = ha]
    /\ \E wv \in Loadouts, hv \in AttackHealths :
          villain_vim = [Combatant_new("Vim") EXCEPT !.current_weapon = wv,
                                                    !.health = hv]
    /\ c_turn \in {1, 2}
    /\ c_pc = "attack"
    /\ c_result = "None"
    /\ c_damage = <<>>
    /\ c_status = "None"
    /\ log = <<>>
    /\ HealthIdle
    /\ BattleIdle
    /\ XIdle

CombatOthers == UNCHANGED <<scenario, overflow_checks, hvars, bvars, given, xvars>>

Fighter(who) == IF who = "hero_alice" THEN hero_alice ELSE villain_vim

\* the attacker and the defender of the current attack call
Att == Fighter(Turns[c_turn][1])
Def == Fighter(Turns[c_turn][2])

\* the defender of the current attack call becomes d
SetDef(d) ==
    IF Turns[c_turn][2] = "hero_alice"
    THEN hero_alice' = d /\ UNCHANGED villain_vim
    ELSE villain_vim' = d /\ UNCHANGED hero_alice

\* the attack call is over: in combat_example println!(), then the next
\* call or Ok(()); a call on its own has returned
EndTurn ==
    IF scenario = "combat" /\ c_turn < Len(Turns)
    THEN c_turn' = c_turn + 1 /\ c_pc' = "attack"
    ELSE c_turn' = c_turn /\ c_pc' = "done"

\* attack: "{attacker} attacks {defender}", then resolve_attack with roll 50
AttackResolve ==
    /\ scenario \in TurnScenarios /\ c_pc = "attack"
    /\ LET r == resolve_attack(DiceRoll, Att, Def, overflow_checks)
       IN /\ c_result' = r.ret
          /\ c_pc' = IF r.panic THEN "panic" ELSE "match"
    /\ c_damage' = <<>>
    /\ c_status' = "None"
    /\ log' = Append(log, <<"attacks", Att.name, Def.name>>)
    /\ UNCHANGED <<hero_alice, villain_vim, c_turn>>
    /\ CombatOthers

\* not the code: the match arms Miss and NoWeapon cost the defender a hit point
AttackNoEffect_chip ==
    /\ scenario \in TurnScenarios /\ c_pc = "match"
    /\ c_result \in {"Miss", "NoWeapon"}
    /\ log' = Append(log, <<c_result, Att.name>>)
    /\ SetDef([Def EXCEPT !.health.current = Def.health.current - 1])
    /\ EndTurn
    /\ UNCHANGED <<c_result, c_damage, c_status>>
    /\ CombatOthers

\* attack: the match arms Miss and NoWeapon print and return
AttackNoEffect ==
    /\ scenario \in TurnScenarios /\ c_pc = "match"
    /\ c_result \in {"Miss", "NoWeapon"}
    /\ log' = Append(log, <<c_result, Att.name>>)
    /\ EndTurn
    /\ UNCHANGED <<hero_alice, villain_vim, c_result, c_damage, c_status>>
    /\ CombatOthers

\* attack: the match arms DirectHit and GlancingBlow print and enter
\* damage_step, which calls calculate_damage
AttackDamageStep ==
    /\ scenario \in TurnScenarios /\ c_pc = "match"
    /\ c_result \in {"DirectHit", "GlancingBlow"}
    /\ LET r == calculate_damage(c_result, Att, Def, overflow_checks)
       IN /\ c_damage' = r.ret
          /\ c_pc' = IF r.panic THEN "panic" ELSE "damage_step"
    /\ log' = Append(log, <<c_result>>)
    /\ UNCHANGED <<hero_alice, villain_vim, c_turn, c_result, c_status>>
    /\ CombatOthers

\* not the code: the blow costs the attacker a hit point as well
DamageStepApply_recoil ==
    /\ scenario \in TurnScenarios /\ c_pc = "damage_step"
    /\ IF c_damage = <<>>
       THEN /\ EndTurn
            /\ UNCHANGED <<hero_alice, villain_vim, c_status, log>>
       ELSE /\ LET r == Health_damage(Def.health, c_damage[1], overflow_checks)
                   hurt == [Att EXCEPT !.health.current = Att.health.current - 1]
               IN /\ IF Turns[c_turn][2] = "hero_alice"
                     THEN hero_alice' = [Def EXCEPT !.health = r.health]
                          /\ villain_vim' = hurt
                     ELSE villain_vim' = [Def EXCEPT !.health = r.health]
                          /\ hero_alice' = hurt
                  /\ c_status' = r.status
                  /\ c_pc' = IF r.err = "none" THEN "report" ELSE "panic"
            /\ log' = Append(log, <<"takes", Def.name, c_damage[1]>>)
            /\ UNCHANGED c_turn
    /\ UNCHANGED <<c_result, c_damage>>
    /\ CombatOthers

\* not the code: damage_step reports the status the defender had before the damage
DamageStepApply_stale_status ==
    /\ scenario \in TurnScenarios /\ c_pc = "damage_step"
    /\ IF c_damage = <<>>
       THEN /\ EndTurn
            /\ UNCHANGED <<hero_alice, villain_vim, c_status, log>>
       ELSE /\ LET r == Health_damage(Def.health, c_damage[1], overflow_checks)
               IN /\ SetDef([Def EXCEPT !.health = r.health])
                  /\ c_status' = Health_check_status(Def.health)
                  /\ c_pc' = IF r.err = "none" THEN "report" ELSE "panic"
            /\ log' = Append(log, <<"takes", Def.name, c_damage[1]>>)
            /\ UNCHANGED c_turn
    /\ UNCHANGED <<c_result, c_damage>>
    /\ CombatOthers

\* damage_step: if calculate_damage gave Some(damage),
\* "{defender} takes {damage} damage." and
\* status = defender.health.damage(damage); if it gave None, nothing is done
DamageStepApply ==
    /\ scenario \in TurnScenarios /\ c_pc = "damage_step"
    /\ IF c_damage = <<>>
       THEN /\ EndTurn
            /\ UNCHANGED <<hero_alice, villain_vim, c_status, log>>
       ELSE /\ LET r == Health_damage(Def.health, c_damage[1], overflow_checks)
               IN /\ SetDef([Def EXCEPT !.health = r.health])
                  /\ c_status' = r.status
                  /\ c_pc' = IF r.err = "none" THEN "report" ELSE "panic"
            /\ log' = Append(log, <<"takes", Def.name, c_damage[1]>>)
            /\ UNCHANGED c_turn
    /\ UNCHANGED <<c_result, c_damage>>
    /\ CombatOthers

\* damage_step: "{defender} has {current} hit points remaining." and, when
\* the status is Defeated, "{defender} is defeated!"
DamageStepReport ==
    /\ scenario \in TurnScenarios /\ c_pc = "report"
    /\ log' = (IF c_status = "Defeated"
                 THEN Append(Append(log, <<"remaining", Def.name, Def.health.current>>),
                             <<"defeated", Def.name>>)
                 ELSE Append(log, <<"remaining", Def.name, Def.health.current>>))
    /\ EndTurn
    /\ UNCHANGED <<hero_alice, villain_vim, c_result, c_damage, c_status>>
    /\ CombatOthers

CombatNext ==
    \/ AttackResolve
    \/ AttackNoEffect
    \/ AttackDamageStep
    \/ DamageStepApply
    \/ DamageStepReport

(***************************************************************************)
(* Driver "limits": the three resolver functions on combatants whose       *)
(* weapon and stats sit at the ends of the i32 range.  The combatants are  *)
(* built once (Combatant::new, the stat fields written, give_weapon) and   *)
(* only read afterwards.                                                   *)
(***************************************************************************)
LimitsInit ==
    /\ scenario = "limits"
    /\ overflow_checks \in BOOLEAN
    /\ \E wa \in LimitLoadouts, a \in LimitStats :
          attacker = [Combatant_new("Attacker") EXCEPT
                         !.stats.accuracy = a, !.stats.strength = a,
                         !.current_weapon = wa]
    /\ \E d \in LimitStats :
          defender = [Combatant_new("Defender") EXCEPT
                         !.stats.evasion = d, !.stats.defense = d]
    /\ NoCall
    /\ given = <<>>
    /\ HealthIdle
    /\ CombatIdle
    /\ XIdle

\* battle::calculate_hit_rate(&attacker, &defender)
ProbeCalculateHitRate ==
    /\ scenario \in {"limits", "equip"} /\ ~b_panic
    /\ LET r == calculate_hit_rate(attacker, defender, overflow_checks)
       IN /\ b_opt' = r.ret
          /\ b_panic' = r.panic
    /\ b_call' = "calculate_hit_rate"
    /\ b_dice' = 0
    /\ b_arg' = "None"
    /\ b_res' = "None"
    /\ UNCHANGED <<attacker, defender>>
    /\ BattleOthers

\* battle::resolve_attack(dice_roll, &attacker, &defender)
ProbeResolveAttack(dice_roll) ==
    /\ scenario \in {"limits", "equip"} /\ ~b_panic
    /\ LET r == resolve_attack(dice_roll, attacker, defender, overflow_checks)
       IN /\ b_res' = r.ret
          /\ b_panic' = r.panic
    /\ b_call' = "resolve_attack"
    /\ b_dice' = dice_roll
    /\ b_arg' = "None"
    /\ b_opt' = <<>>
    /\ UNCHANGED <<attacker, defender>>
    /\ BattleOthers

\* battle::calculate_damage(&attack_result, &attacker, &defender)
ProbeCalculateDamage(attack_result) ==
    /\ scenario \in {"limits", "equip"} /\ ~b_panic
    /\ LET r == calculate_damage(attack_result, attacker, defender, overflow_checks)
       IN /\ b_opt' = r.ret
          /\ b_panic' = r.panic
    /\ b_call' = "calculate_damage"
    /\ b_dice' = 0
    /\ b_arg' = attack_result
    /\ b_res' = "None"
    /\ UNCHANGED <<attacker, defender>>
    /\ BattleOthers

\* the three resolver functions, called in drivers "limits" and "equip"
LimitsNext ==
    \/ ProbeCalculateHitRate
    \/ \E dice_roll \in LimitDiceRolls : ProbeResolveAttack(dice_roll)
    \/ \E attack_result \in AttackResult : ProbeCalculateDamage(attack_result)

(***************************************************************************)
(* Driver "equip": an attacker built by Combatant::new is handed up to     *)
(* MaxGiven weapons, one give_weapon call at a time, and the resolver      *)
(* functions are called in between (through LimitsNext).  given records    *)
(* the weapons handed over.                                                *)
(***************************************************************************)
EquipInit ==
    /\ scenario = "equip"
    /\ overflow_checks \in BOOLEAN
    /\ attacker = Combatant_new("Attacker")
    /\ defender = Combatant_new("Defender")
    /\ NoCall
    /\ given = <<>>
    /\ HealthIdle
    /\ CombatIdle
    /\ XIdle

\* attacker.give_weapon(weapon)
EquipGiveWeapon(weapon) ==
    /\ scenario = "equip" /\ ~b_panic
    /\ Len(given) < MaxGiven
    /\ attacker' = give_weapon(attacker, weapon)
    /\ given' = Append(given, weapon)
    /\ UNCHANGED defender
    /\ NoCallNext
    /\ UNCHANGED <<scenario, overflow_checks, hvars, cvars, xvars>>

EquipNext == \E weapon \in Weapons : EquipGiveWeapon(weapon)

(***************************************************************************)
(* Driver "services": a ServiceContainer as ServiceContainer::new builds   *)
(* it, under register_X and X_mut calls on its four slots in any order.    *)
(* s_first records, per slot, the service of the first register call that  *)
(* returned Ok.                                                            *)
(***************************************************************************)
ServicesInit ==
    /\ scenario = "services"
    /\ overflow_checks = FALSE
    /\ container = ServiceContainer_new
    /\ s_op = "none"
    /\ s_slot = "None"
    /\ s_arg = "None"
    /\ s_ret = "None"
    /\ s_got = <<>>
    /\ s_first = ServiceContainer_new
    /\ CoreIdle
    /\ InputIdle
    /\ BitmapIdle
    /\ YIdle

ServicesOthers ==
    UNCHANGED <<scenario, overflow_checks, hvars, bvars, given, cvars, ivars, mvars, yvars>>

\* services.register_X(service) for the X of the slot
CallRegister(slot, service) ==
    /\ scenario = "services"
    /\ LET r == register(container, slot, service)
       IN /\ container' = r.container
          /\ s_ret' = r.ret
          /\ s_first' = IF r.ret = "Ok" /\ s_first[slot] = <<>>
                        THEN [s_first EXCEPT ![slot] = <<service>>]
                        ELSE s_first
    /\ s_op' = "register"
    /\ s_slot' = slot
    /\ s_arg' = service
    /\ s_got' = <<>>
    /\ ServicesOthers

\* services.X_mut() for the X of the slot
CallMut(slot) ==
    /\ scenario = "services"
    /\ LET r == slot_mut(container, slot)
       IN /\ s_ret' = r.ret
          /\ s_got' = r.service
    /\ s_op' = "mut"
    /\ s_slot' = slot
    /\ s_arg' = "None"
    /\ UNCHANGED <<container, s_first>>
    /\ ServicesOthers

ServicesNext ==
    \/ \E slot \in Slots, service \in Services : CallRegister(slot, service)
    \/ \E slot \in Slots : CallMut(slot)

(***************************************************************************)
(* Driver "input": one InputManager of either implementation under         *)
(* request_close and is_requesting_close calls, while the user closes the  *)
(* window or presses and releases Escape.                                  *)
(***************************************************************************)
InputInit ==
    /\ scenario = "input"
    /\ overflow_checks = FALSE
    /\ manager \in {WindowInputManager_create, WebInputManager_create}
    /\ window = [open |-> TRUE, key_escape |-> FALSE]
    /\ i_op = "none"
    /\ i_ret = <<>>
    /\ i_requested = FALSE
    /\ CoreIdle
    /\ ServicesIdle
    /\ BitmapIdle
    /\ YIdle

InputOthers ==
    UNCHANGED <<scenario, overflow_checks, hvars, bvars, given, cvars, svars, mvars, yvars>>

\* manager.request_close()
CallRequestClose ==
    /\ scenario = "input"
    /\ manager' = request_close(manager)
    /\ i_op' = "request_close"
    /\ i_ret' = <<>>
    /\ i_requested' = TRUE
    /\ UNCHANGED window
    /\ InputOthers

\* manager.is_requesting_close()
CallIsRequestingClose ==
    /\ scenario = "input"
    /\ i_ret' = <<is_requesting_close(manager, window)>>
    /\ i_op' = "is_requesting_close"
    /\ UNCHANGED <<manager, window, i_requested>>
    /\ InputOthers

\* the user closes the window: is_open() is false from now on
WindowClosed ==
    /\ scenario = "input" /\ manager.kind = "window"
    /\ window.open
    /\ window' = [window EXCEPT !.open = FALSE]
    /\ UNCHANGED <<manager, i_op, i_ret, i_requested>>
    /\ InputOthers

\* the user presses or releases Escape
KeyEscape(down) ==
    /\ scenario = "input" /\ manager.kind = "window"
    /\ window.key_escape # down
    /\ window' = [window EXCEPT !.key_escape = down]
    /\ UNCHANGED <<manager, i_op, i_ret, i_requested>>
    /\ InputOthers

InputNext ==
    \/ CallRequestClose
    \/ CallIsRequestingClose
    \/ WindowClosed
    \/ \E down \in BOOLEAN : KeyEscape(down)

(***************************************************************************)
(* Driver "bitmap": Bitmaps are built by the two public constructors from  *)
(* any width, height and buffer the types allow.                           *)
(***************************************************************************)
BitmapInit ==
    /\ scenario = "bitmap"
    /\ overflow_checks = FALSE
    /\ bitmap = <<>>
    /\ m_op = "none"
    /\ CoreIdle
    /\ ServicesIdle
    /\ InputIdle
    /\ YIdle

BitmapOthers ==
    UNCHANGED <<scenario, overflow_checks, hvars, bvars, given, cvars, svars, ivars, yvars>>

\* Bitmap::new(width, height, colors)
CallBitmapNew(width, height, colors) ==
    /\ scenario = "bitmap"
    /\ bitmap' = <<Bitmap_new(width, height, colors)>>
    /\ m_op' = "new"
    /\ BitmapOthers

\* Bitmap::from_framebuffer(width, height, buffer)
CallBitmapFromFramebuffer(width, height, buffer) ==
    /\ scenario = "bitmap"
    /\ bitmap' = <<Bitmap_from_framebuffer(width, height, buffer)>>
    /\ m_op' = "from_framebuffer"
    /\ BitmapOthers

BitmapNext ==
    \/ \E width \in 0..MaxDim, height \in 0..MaxDim, colors \in Buffers :
          CallBitmapNew(width, height, colors)
    \/ \E width \in 0..MaxDim, height \in 0..MaxDim, buffer \in Buffers :
          CallBitmapFromFramebuffer(width, height, buffer)

(***************************************************************************)
(* Driver "loader": LocalAssetLoader::load_bitmap is called once on a path *)
(* whose file is missing, undecodable or an image.                         *)
(***************************************************************************)
LoaderInit ==
    /\ scenario = "loader"
    /\ overflow_checks \in BOOLEAN
    /\ NonShellIdle
    /\ AppIdle
    /\ FutureIdle
    /\ l_file \in Files
    /\ l_ret = <<>>

CallLoadBitmap ==
    /\ scenario = "loader"
    /\ l_ret = <<>>
    /\ l_ret' = <<load_bitmap(l_file)>>
    /\ UNCHANGED <<NonShellVars, l_file, avars, fvars>>

LoaderNext == CallLoadBitmap

(***************************************************************************)
(* Driver "app": run (app.rs) on a container with any subset of the four   *)
(* services registered.  game_loop::game_loop calls next_frame until it    *)
(* returns false: a frame ends at once if exit was requested, otherwise it *)
(* calls update zero or more times (once per elapsed time step) and then   *)
(* render.  a_pc is "run", "loading" (suspended in the await of            *)
(* load_bitmap), "loaded", "frame" (between frames), "updates" (inside a   *)
(* frame), or how run ended: "returned_ok", "returned_err", "panic".       *)
(***************************************************************************)
AppInit ==
    /\ scenario = "app"
    /\ overflow_checks \in BOOLEAN
    /\ NonShellIdle
    /\ LoaderIdle
    /\ FutureIdle
    /\ services \in Containers
    /\ a_pc = "run"
    /\ a_exit = FALSE

AppOthers == UNCHANGED <<NonShellVars, lvars, fvars>>

\* run: services.asset_loader_mut()?, then load_bitmap(..) is called and
\* awaited: run is suspended until the loader's future is ready
RunLoad ==
    /\ scenario = "app" /\ a_pc = "run"
    /\ a_pc' = IF asset_loader_mut(services).ret = "Ok"
               THEN "loading" ELSE "returned_err"
    /\ UNCHANGED <<services, a_exit>>
    /\ AppOthers

\* run: the awaited load_bitmap is ready, and the match on its result
RunLoadReady(load_ok) ==
    /\ scenario = "app" /\ a_pc = "loading"
    /\ a_pc' = IF load_ok THEN "loaded" ELSE "returned_err"
    /\ UNCHANGED <<services, a_exit>>
    /\ AppOthers

\* run: services.render_context_mut()?, then draw(&bitmap, 0, 0)
RunDraw(draw_ok) ==
    /\ scenario = "app" /\ a_pc = "loaded"
    /\ a_pc' = IF render_context_mut(services).ret = "Ok" /\ draw_ok
               THEN "frame" ELSE "returned_err"
    /\ UNCHANGED <<services, a_exit>>
    /\ AppOthers

\* next_frame returns false once exit was requested: game_loop returns and
\* run returns Ok(())
LoopExit ==
    /\ scenario = "app" /\ a_pc = "frame" /\ a_exit
    /\ a_pc' = "returned_ok"
    /\ UNCHANGED <<services, a_exit>>
    /\ AppOthers

\* next_frame starts a frame
FrameStart ==
    /\ scenario = "app" /\ a_pc = "frame" /\ ~a_exit
    /\ a_pc' = "updates"
    /\ UNCHANGED <<services, a_exit>>
    /\ AppOthers

\* the update callback: if let Err(error) = update(g) { eprintln; g.exit() }
CallUpdate(requesting_close) ==
    /\ scenario = "app" /\ a_pc = "updates"
    /\ LET r == update(services, requesting_close)
       IN a_exit' = (a_exit \/ r.ret = "Err" \/ r.exit)
    /\ UNCHANGED <<services, a_pc>>
    /\ AppOthers

\* the render callback, which ends the frame:
\* if let Err(error) = render(g) { eprint; g.exit() }
CallRender(draw_ok) ==
    /\ scenario = "app" /\ a_pc = "updates"
    /\ LET r == render(services, draw_ok)
       IN /\ a_pc' = IF r.panic THEN "panic" ELSE "frame"
          /\ a_exit' = (a_exit \/ r.ret = "Err")
    /\ UNCHANGED services
    /\ AppOthers

AppNext ==
    \/ RunLoad
    \/ \E load_ok \in BOOLEAN : RunLoadReady(load_ok)
    \/ \E draw_ok \in BOOLEAN : RunDraw(draw_ok)
    \/ LoopExit
    \/ FrameStart
    \/ \E requesting_close \in BOOLEAN : CallUpdate(requesting_close)
    \/ \E draw_ok \in BOOLEAN : CallRender(draw_ok)

(***************************************************************************)
(* Driver "future": one grab_image(path) call.  The state after            *)
(* ImageFuture::new(path) is the initial one; the first poll follows in    *)
(* the same turn of the event loop, so the browser's load and error events *)
(* come after it, and the executor polls again only once woken.            *)
(***************************************************************************)
FutureInit ==
    /\ scenario = "future"
    /\ overflow_checks \in BOOLEAN
    /\ NonShellIdle
    /\ LoaderIdle
    /\ AppIdle
    /\ f_src \in Sources
    /\ f_state = Image_set_src(f_src)
    /\ f_handlers = FALSE
    /\ f_image = TRUE
    /\ f_load_failed = FALSE
    /\ f_woken = FALSE
    /\ f_out = "None"
    /\ g_ret = "None"

FutureOthers == UNCHANGED <<NonShellVars, lvars, avars>>

\* the executor polls grab_image, which polls the ImageFuture it awaits;
\* on Ready grab_image runs on: Err(()) is ImageNotFound, Ok(image) goes to
\* the canvas
PollGrabImage(canvas) ==
    /\ scenario = "future"
    /\ g_ret = "None"
    /\ f_out = "None" \/ (f_out = "Pending" /\ f_woken)
    /\ LET r == ImageFuture_poll(f_image, f_load_failed,
                                 Image_complete(f_src, f_state))
       IN /\ f_out' = r.out
          /\ f_image' = r.image
          /\ f_handlers' = (f_handlers \/ r.set_handlers)
          /\ g_ret' = CASE r.out = "Pending" -> "None"
                         [] r.out = "Err" -> "ImageNotFound"
                         [] r.out = "Ok" -> canvas
          /\ r.out = "Ok" => canvas \in CanvasOutcomes(f_state)
          /\ r.out # "Ok" => canvas = "Ok"
    /\ f_woken' = FALSE
    /\ UNCHANGED <<f_src, f_state, f_load_failed>>
    /\ FutureOthers

\* the browser finishes loading the image and fires load: onload wakes
BrowserLoad ==
    /\ scenario = "future"
    /\ f_out # "None"
    /\ f_src = "image" /\ f_state = "pending"
    /\ f_state' = "available"
    /\ f_woken' = (f_woken \/ f_handlers)
    /\ UNCHANGED <<f_src, f_handlers, f_image, f_load_failed, f_out, g_ret>>
    /\ FutureOthers

\* the browser gives the image up and fires error: onerror sets
\* load_failed and wakes
BrowserError ==
    /\ scenario = "future"
    /\ f_out # "None"
    /\ f_src \in {"missing", "empty"} /\ f_state = "pending"
    /\ f_state' = "broken"
    /\ f_load_failed' = (f_load_failed \/ f_handlers)
    /\ f_woken' = (f_woken \/ f_handlers)
    /\ UNCHANGED <<f_src, f_handlers, f_image, f_out, g_ret>>
    /\ FutureOthers

FutureNext ==
    \/ \E canvas \in {"Ok", "CanvasError", "panic"} : PollGrabImage(canvas)
    \/ BrowserLoad
    \/ BrowserError

(***************************************************************************)
(* Claims about Health                                                     *)
(***************************************************************************)

\* C1: after every Health::damage call that returns, whatever the sign and
\* magnitude of the amounts so far, 0 <= current <= max.
C1_HealthInRange ==
    (scenario = "health" /\ h_calls > 0 /\ h_err = "none")
        => (0 <= health.current /\ health.current <= health.max)

\* C1 witness: on a wrapping build, damage(i32::MIN) on a full health of 10
\* overflows the subtraction, and the call still returns a clamped value.
C1_Witness ==
    /\ scenario = "health" /\ ~overflow_checks
    /\ h_op = "damage" /\ h_err = "none" /\ h_calls = 1
    /\ h_arg = I32_MIN /\ health.max = 10 /\ health.current = 0

\* C9 as stated: damage(amount) with amount >= max leaves current == 0 and
\* returns Defeated, for every Health::new(max).
C9_Original ==
    (scenario = "health" /\ h_op = "damage" /\ h_err = "none"
        /\ h_arg >= health.max)
        => (health.current = 0 /\ h_ret = "Defeated")

\* C9 amended: for max > 0, damage(amount) with amount >= max returns, leaves
\* current == 0 and returns Defeated, from every reachable state.
C9_DefeatedWhenPositiveMax ==
    (scenario = "health" /\ h_op = "damage" /\ health.max > 0
        /\ h_arg >= health.max)
        => (h_err = "none" /\ health.current = 0 /\ h_ret = "Defeated")

\* C9 witness: a later call (not the first) with amount >= max > 0.
C9_Witness ==
    /\ scenario = "health" /\ h_op = "damage" /\ h_calls >= 2
    /\ health.max > 0 /\ h_arg >= health.max
    /\ h_ret = "Defeated" /\ health.current = 0

\* the classification the spec gives, read in its order
C10_Classification(h) ==
    IF h.current = h.max THEN "Healthy"
    ELSE IF h.current <= 0 THEN "Defeated"
    ELSE "Hurt"

\* C10: check_status returns Healthy when current == max, else Defeated when
\* current <= 0, else Hurt; a fresh Health is Healthy; and the call leaves
\* current and max as they were.
C10_CheckStatus ==
    /\ [](scenario = "health" /\ h_op = "check_status"
            => /\ h_ret = C10_Classification(health)
               /\ (h_calls = 0 => h_ret = "Healthy"))
    /\ [][h_op' = "check_status" => health' = health]_<<health, h_op>>

\* C10 witness: check_status after damage reports Hurt.
C10_Witness ==
    /\ scenario = "health" /\ h_op = "check_status" /\ h_calls > 0
    /\ h_ret = "Hurt" /\ 0 < health.current /\ health.current < health.max

\* a damage call was made in this step
C12_DamageStep == scenario = "health" /\ h_op' = "damage" /\ h_calls' = h_calls + 1

\* max(0, current - amount) for amount >= 0, over the integers
C12_Reduced(h, amount) ==
    IF amount >= h.current THEN 0 ELSE h.current - amount

\* the invariant of the Health type: 0 <= current <= max
C12_ValidHealth(h) == 0 <= h.current /\ h.current <= h.max

\* C12: on a Health within its invariant, Health::damage(amount) with
\* amount >= 0 returns, sets current to max(0, current - amount) and leaves
\* max alone, and returns the status check_status reports for the health it
\* leaves; this holds for every call of a sequence, so calls accumulate.
C12_DamageSubtracts ==
    [][(C12_DamageStep /\ h_arg' >= 0 /\ C12_ValidHealth(health))
         => /\ h_err' = "none"
            /\ health'.current = C12_Reduced(health, h_arg')
            /\ health'.max = health.max
            /\ h_ret' = Health_check_status(health')]_vars

\* C12 witness: the second damage(7) on Health::new(10) returns Defeated with
\* current 0 (one damage(7) alone leaves 3).
C12_Witness ==
    /\ scenario = "health" /\ h_op = "damage" /\ h_err = "none"
    /\ h_calls = 2 /\ h_arg = 7
    /\ health = [current |-> 0, max |-> 10] /\ h_ret = "Defeated"

\* min(max, current + |amount|) for amount < 0, over the integers
C13_Healed(h, amount) ==
    IF h.current - h.max >= amount THEN h.max ELSE h.current - amount

\* C13: on a Health within its invariant, Health::damage with a negative
\* amount heals: the call returns with current == min(max, current + |amount|),
\* so current never decreases.
C13_NegativeHeals ==
    [][(C12_DamageStep /\ h_arg' < 0 /\ C12_ValidHealth(health))
         => /\ h_err' = "none"
            /\ health'.current = C13_Healed(health, h_arg')
            /\ health'.current >= health.current]_vars

\* C30: under non-negative amounts health only goes down and defeat is
\* permanent: on a Health with max > 0, a damage(amount) call with
\* amount >= 0 does not raise current, leaves max alone, and a Health that
\* was Defeated before the call is Defeated after it.
C30_DownOnly ==
    [][(C12_DamageStep /\ h_arg' >= 0 /\ health.max > 0)
         => /\ health'.current <= health.current
            /\ health'.max = health.max
            /\ (Health_check_status(health) = "Defeated")
                  => /\ h_ret' = "Defeated"
                     /\ Health_check_status(health') = "Defeated"]_vars

\* C30 witness: the third call, a damage(0) on a Health already at 0, has
\* returned Defeated
C30_Witness ==
    /\ scenario = "health" /\ h_op = "damage" /\ h_err = "none"
    /\ h_calls = 3 /\ h_arg = 0
    /\ health = [current |-> 0, max |-> 10] /\ h_ret = "Defeated"

(***************************************************************************)
(* Claims about the battle resolver                                        *)
(***************************************************************************)
Armed == attacker.current_weapon # <<>>

\* weapon.hit_rate + attacker accuracy - defender evasion, over the integers
HitRateSum ==
    attacker.current_weapon[1].hit_rate + attacker.stats.accuracy
        - defender.stats.evasion

\* weapon.damage + attacker strength - defender defense, over the integers
BaseDamage ==
    attacker.current_weapon[1].damage + attacker.stats.strength
        - defender.stats.defense

\* C2: with a weapon equipped, resolve_attack returns DirectHit exactly when
\* dice_roll <= weapon.hit_rate + accuracy - evasion, and GlancingBlow otherwise.
C2_ResolveAttack ==
    (scenario = "battle" /\ b_call = "resolve_attack" /\ Armed)
        => /\ ~b_panic
           /\ b_res = IF b_dice <= HitRateSum THEN "DirectHit" ELSE "GlancingBlow"

\* C2 witness: a roll equal to a hit rate that both stats have moved is a
\* DirectHit.
C2_Witness ==
    /\ scenario = "battle" /\ b_call = "resolve_attack" /\ Armed
    /\ attacker.stats.accuracy # 0 /\ defender.stats.evasion # 0
    /\ b_dice = HitRateSum /\ b_res = "DirectHit"

\* C3: without a weapon, resolve_attack returns NoWeapon for every roll and
\* all stats.
C3_NoWeapon ==
    (scenario = "battle" /\ b_call = "resolve_attack" /\ ~Armed)
        => (~b_panic /\ b_res = "NoWeapon")

\* C3 witness: an unarmed attacker with raised accuracy rolls the best roll
\* against a defender with lowered evasion, and gets NoWeapon.
C3_Witness ==
    /\ scenario = "battle" /\ b_call = "resolve_attack" /\ ~Armed
    /\ attacker.stats.accuracy = 5 /\ defender.stats.evasion = -10
    /\ b_dice = 1 /\ b_res = "NoWeapon"

\* C4: calculate_hit_rate returns None exactly when the attacker has no
\* weapon, and otherwise weapon.hit_rate + accuracy - evasion, unclamped.
C4_HitRate ==
    (scenario = "battle" /\ b_call = "calculate_hit_rate")
        => /\ ~b_panic
           /\ (b_opt = <<>>) <=> ~Armed
           /\ Armed => b_opt = <<HitRateSum>>

\* C4 witness: a hit rate above 100 is returned as computed.
C4_Witness ==
    /\ scenario = "battle" /\ b_call = "calculate_hit_rate" /\ Armed
    /\ attacker.stats.accuracy # 0
    /\ b_opt # <<>> /\ b_opt[1] > 100

\* C5: with a weapon equipped, calculate_damage(DirectHit) is exactly
\* weapon.damage + strength - defense, negative results included.
C5_DirectHitDamage ==
    (scenario = "battle" /\ b_call = "calculate_damage"
        /\ b_arg = "DirectHit" /\ Armed)
        => (~b_panic /\ b_opt = <<BaseDamage>>)

\* C5 witness: a DirectHit whose damage is negative.
C5_Witness ==
    /\ scenario = "battle" /\ b_call = "calculate_damage"
    /\ b_arg = "DirectHit" /\ Armed
    /\ attacker.stats.strength # 0 /\ defender.stats.defense # 0
    /\ b_opt # <<>> /\ b_opt[1] < 0

\* half of b, rounded toward zero
C6_HalfTowardZero(b) == IF b >= 0 THEN b \div 2 ELSE -((-b) \div 2)

\* C6: with a weapon equipped, calculate_damage(GlancingBlow) is
\* weapon.damage + strength - defense halved and truncated toward zero:
\* a base of -5 gives -2, a base of 5 gives 2.
C6_GlancingDamage ==
    (scenario = "battle" /\ b_call = "calculate_damage"
        /\ b_arg = "GlancingBlow" /\ Armed)
        => /\ ~b_panic
           /\ b_opt = <<C6_HalfTowardZero(BaseDamage)>>
           /\ BaseDamage = -5 => b_opt = <<-2>>
           /\ BaseDamage = 5 => b_opt = <<2>>

\* C6 witness: a glancing blow on a base of -5 gives -2.
C6_Witness ==
    /\ scenario = "battle" /\ b_call = "calculate_damage"
    /\ b_arg = "GlancingBlow" /\ Armed
    /\ BaseDamage = -5 /\ b_opt = <<-2>>

\* C7: calculate_damage returns None for Miss and for NoWeapon, with or
\* without a weapon and whatever the stats.
C7_NoDamage ==
    (scenario = "battle" /\ b_call = "calculate_damage"
        /\ b_arg \in {"Miss", "NoWeapon"})
        => (~b_panic /\ b_opt = <<>>)

\* C7 witness: Miss for an armed attacker with raised strength gives None.
C7_Witness ==
    /\ scenario = "battle" /\ b_call = "calculate_damage" /\ b_arg = "Miss"
    /\ Armed /\ attacker.stats.strength = 5 /\ defender.stats.defense = -10
    /\ b_opt = <<>>

\* C16: for an armed attacker and every roll in 1..100, a hit rate
\* (weapon.hit_rate + accuracy - evasion) of 100 or more gives DirectHit and
\* a hit rate of 0 or less gives GlancingBlow.
C16_OutsideDieRange ==
    (scenario = "battle" /\ b_call = "resolve_attack" /\ Armed
        /\ b_dice \in 1..100)
        => /\ ~b_panic
           /\ HitRateSum >= 100 => b_res = "DirectHit"
           /\ HitRateSum <= 0 => b_res = "GlancingBlow"

\* C16 witness: the lowest roll against a hit rate of exactly 0 is a
\* GlancingBlow.
C16_Witness ==
    /\ scenario = "battle" /\ b_call = "resolve_attack" /\ Armed
    /\ HitRateSum = 0 /\ b_dice = 1 /\ b_res = "GlancingBlow"

\* C24: resolve_attack never returns Miss: for every roll, attacker and
\* defender, a call that returns gives NoWeapon, DirectHit or GlancingBlow.
C24_NeverMiss ==
    /\ (b_call = "resolve_attack" /\ ~b_panic)
          => b_res \in {"NoWeapon", "DirectHit", "GlancingBlow"}
    /\ (scenario \in TurnScenarios /\ c_pc \in {"match", "damage_step", "report", "done"})
          => c_result \in {"NoWeapon", "DirectHit", "GlancingBlow"}

\* C24 witness: a roll above the die's range against a hit rate below zero,
\* the least favourable armed attack, is a GlancingBlow.
C24_Witness ==
    /\ scenario = "battle" /\ b_call = "resolve_attack" /\ Armed
    /\ HitRateSum < 0 /\ b_dice = 101 /\ b_res = "GlancingBlow"

\* C25: calculate_damage called with DirectHit or GlancingBlow for an
\* attacker without a weapon returns None, whatever the stats.
C25_UnarmedNoDamage ==
    (b_call = "calculate_damage" /\ b_arg \in {"DirectHit", "GlancingBlow"}
        /\ current_weapon(attacker) = <<>>)
        => (~b_panic /\ b_opt = <<>>)

\* C25 witness: a DirectHit asked for an unarmed attacker whose strength is
\* above the defender's defense gives None.
C25_Witness ==
    /\ scenario = "battle" /\ b_call = "calculate_damage" /\ b_arg = "DirectHit"
    /\ current_weapon(attacker) = <<>>
    /\ attacker.stats.strength = 5 /\ defender.stats.defense = -10
    /\ b_opt = <<>>

(***************************************************************************)
(* Claims about Combatant                                                  *)
(***************************************************************************)

\* C14: a combatant as Combatant::new builds it has health 10 of 10
\* (Healthy), all four stats 0 and no weapon, and resolve_attack gives
\* NoWeapon for it on every roll; once a weapon is given it no longer does.
C14_FreshCombatant ==
    /\ (scenario = "equip" /\ given = <<>>)
         => /\ attacker.health = [current |-> 10, max |-> 10]
            /\ Health_check_status(attacker.health) = "Healthy"
            /\ attacker.stats =
                   [accuracy |-> 0, evasion |-> 0, strength |-> 0, defense |-> 0]
            /\ current_weapon(attacker) = <<>>
            /\ b_call = "resolve_attack" => (~b_panic /\ b_res = "NoWeapon")
    /\ (scenario = "equip" /\ given # <<>> /\ b_call = "resolve_attack")
         => (~b_panic /\ b_res # "NoWeapon")

\* C14 witness: resolve_attack with the best roll, before any give_weapon.
C14_Witness ==
    /\ scenario = "equip" /\ given = <<>>
    /\ b_call = "resolve_attack" /\ b_dice = 1 /\ b_res = "NoWeapon"

\* a combatant holds a weapon
C15_Holds(c) == current_weapon(c) # <<>>

\* C15: after any sequence of give_weapon calls the combatant holds exactly
\* the weapon of the most recent call, and hit rate, attack result and damage
\* are those of that weapon alone; no step of any driver takes a weapon away.
C15_LastWeaponGiven ==
    /\ [](scenario = "equip" /\ given # <<>>
            => LET last == given[Len(given)]
               IN /\ current_weapon(attacker) = <<last>>
                  /\ b_call = "calculate_hit_rate" => b_opt = <<last.hit_rate>>
                  /\ b_call = "resolve_attack" =>
                        b_res = IF b_dice <= last.hit_rate
                                THEN "DirectHit" ELSE "GlancingBlow"
                  /\ (b_call = "calculate_damage" /\ b_arg = "DirectHit")
                        => b_opt = <<last.damage>>)
    /\ [][/\ C15_Holds(attacker) => C15_Holds(attacker')
          /\ C15_Holds(defender) => C15_Holds(defender')
          /\ C15_Holds(hero_alice) => C15_Holds(hero_alice')
          /\ C15_Holds(villain_vim) => C15_Holds(villain_vim')]_vars

\* C15 witness: a second give_weapon replaced a weapon with a different hit
\* rate, and calculate_hit_rate returns the second weapon's.
C15_Witness ==
    /\ scenario = "equip" /\ Len(given) = 2
    /\ given[1].hit_rate # given[2].hit_rate
    /\ b_call = "calculate_hit_rate" /\ b_opt = <<given[2].hit_rate>>

(***************************************************************************)
(* Claims about the ServiceContainer                                       *)
(***************************************************************************)

\* C17: each register_X succeeds only on an empty slot, where it stores the
\* service; on a slot that holds a service it returns AlreadyRegisteredError
\* and the container stays as it was, so the slot keeps the first service.
C17_RegisterOnce ==
    [][(scenario = "services" /\ s_op' = "register")
         => IF container[s_slot'] = <<>>
            THEN /\ s_ret' = "Ok"
                 /\ container' = [container EXCEPT ![s_slot'] = <<s_arg'>>]
            ELSE /\ s_ret' = "AlreadyRegisteredError"
                 /\ container' = container
                 /\ container'[s_slot'] = s_first[s_slot']]_vars

\* C17 witness: a register call with another service on a taken slot is
\* refused and the slot still holds the first one.
C17_Witness ==
    /\ scenario = "services" /\ s_op = "register"
    /\ s_ret = "AlreadyRegisteredError"
    /\ container[s_slot] = s_first[s_slot]
    /\ container[s_slot] # <<s_arg>>

\* C18: X_mut returns NotYetRegisteredError exactly when no register_X call
\* on its slot has returned Ok before; otherwise it returns Ok with the
\* service of that call, whatever was called on the other slots.
C18_MutAfterRegister ==
    (scenario = "services" /\ s_op = "mut")
        => /\ s_ret \in {"Ok", "NotYetRegisteredError"}
           /\ (s_ret = "NotYetRegisteredError") <=> (s_first[s_slot] = <<>>)
           /\ s_ret = "Ok" => (s_got # <<>> /\ s_got = s_first[s_slot])

\* C18 witness: vfc_mut returns the registered Vfc while another slot holds a
\* different service and a third is still empty.
C18_Witness ==
    /\ scenario = "services" /\ s_op = "mut" /\ s_slot = "vfc"
    /\ s_ret = "Ok" /\ s_got = <<"first">>
    /\ container.render_context = <<"second">>
    /\ container.asset_loader = <<>>

(***************************************************************************)
(* Claims about the InputManager                                           *)
(***************************************************************************)

\* C19: for both InputManager implementations, every is_requesting_close
\* call made after a request_close call returns true, whatever the window
\* and the Escape key did in between.
C19_CloseRequestSticks ==
    (scenario = "input" /\ i_op = "is_requesting_close" /\ i_requested)
        => i_ret = <<TRUE>>

\* C19 witness: the WindowInputManager answers true after request_close with
\* the window open and Escape up.
C19_Witness ==
    /\ scenario = "input" /\ manager.kind = "window"
    /\ i_requested /\ window.open /\ ~window.key_escape
    /\ i_op = "is_requesting_close" /\ i_ret = <<TRUE>>

(***************************************************************************)
(* Claims about Bitmap                                                     *)
(***************************************************************************)

\* C20: for every Bitmap built by Bitmap::new or Bitmap::from_framebuffer,
\* the color buffer colors_ref returns has length width * height.
C20_ColorsLength ==
    (scenario = "bitmap" /\ bitmap # <<>>)
        => Len(colors_ref(bitmap[1])) = bitmap[1].width * bitmap[1].height

(***************************************************************************)
(* Claims about the turn sequence                                          *)
(***************************************************************************)

HealthMutated ==
    \/ hero_alice'.health # hero_alice.health
    \/ villain_vim'.health # villain_vim.health

\* C22: within one turn the attack outcome is computed first, the damage is
\* computed from that outcome next, the defender's health is mutated after
\* that, and the status reported is that of the post-damage health.
C22_StepsInOrder ==
    [][(scenario \in TurnScenarios) =>
        /\ (c_pc' = "match" /\ c_pc # "match") =>
               /\ c_pc = "attack"
               /\ c_result' # "None" /\ c_damage' = <<>> /\ c_status' = "None"
               /\ ~HealthMutated
        /\ (c_pc' = "damage_step") =>
               /\ c_pc = "match" /\ c_result' = c_result
               /\ c_damage' = calculate_damage(c_result, Att, Def, overflow_checks).ret
               /\ c_status' = "None"
               /\ ~HealthMutated
        /\ HealthMutated =>
               /\ c_pc = "damage_step" /\ c_damage # <<>>
               /\ Def'.health = Health_damage(Def.health, c_damage[1], overflow_checks).health
        /\ (c_pc' = "report") =>
               /\ c_pc = "damage_step" /\ c_damage # <<>>
               /\ c_status' = Health_check_status(Def'.health)
        /\ (c_pc = "report") =>
               /\ ~HealthMutated /\ c_status' = c_status
               /\ c_status = Health_check_status(Def.health)]_vars

\* a turn whose damage brought the defender from Hurt to Defeated is at its report
C22_Witness ==
    /\ scenario = "combat"
    /\ c_pc = "report"
    /\ c_turn = 3
    /\ c_status = "Defeated"
    /\ Def.health.current = 0

\* C23: in a turn the defender's health is mutated only when the outcome is
\* DirectHit or GlancingBlow and calculate_damage yields a value; a NoWeapon
\* or Miss turn leaves every health exactly as it was.
C23_MutatedOnlyOnHit ==
    [][(scenario \in TurnScenarios) =>
        /\ HealthMutated =>
               /\ c_result \in {"DirectHit", "GlancingBlow"}
               /\ c_damage # <<>>
               /\ c_pc = "damage_step"
        /\ (c_pc = "match" /\ c_result \in {"NoWeapon", "Miss"}) =>
               /\ ~HealthMutated
               /\ c_pc' \in {"attack", "done"}
               /\ c_damage' = <<>>]_vars

\* an attack call by an unarmed Alice on a Vim at 2 of 10 hit points has
\* returned: the outcome was NoWeapon and Vim is still at 2
C23_Witness ==
    /\ scenario = "attack"
    /\ c_turn = 1 /\ c_pc = "done"
    /\ current_weapon(hero_alice) = <<>>
    /\ c_result = "NoWeapon"
    /\ villain_vim.health = [current |-> 2, max |-> 10]

\* both combatants hold the Longsword combat_example gives them
ReferenceLoadout ==
    /\ scenario = "combat"
    /\ current_weapon(hero_alice) = <<Longsword>>
    /\ current_weapon(villain_vim) = <<Longsword>>

\* the attack calls made so far, as their "{attacker} attacks {defender}" lines
AttacksLogged == SelectSeq(log, LAMBDA e : e[1] = "attacks")

\* C28: the reference turn sequence issues exactly three turns, Alice->Vim,
\* Vim->Alice, Alice->Vim; every turn is a DirectHit for 8 damage; it ends
\* with Vim at 0 (Defeated) and Alice at 2 (Hurt), returning Ok.
C28_ReferenceSequence ==
    ReferenceLoadout =>
        /\ c_pc # "panic"
        /\ c_result \in {"None", "DirectHit"}
        /\ c_damage \in {<<>>, <<8>>}
        /\ (c_pc \in {"match", "damage_step", "report", "done"}) => c_result = "DirectHit"
        /\ (c_pc \in {"damage_step", "report", "done"}) => c_damage = <<8>>
        /\ Len(AttacksLogged) <= 3
        /\ (c_pc = "done") =>
              /\ AttacksLogged = << <<"attacks", "Alice", "Vim">>,
                                    <<"attacks", "Vim", "Alice">>,
                                    <<"attacks", "Alice", "Vim">> >>
              /\ villain_vim.health.current = 0
              /\ Health_check_status(villain_vim.health) = "Defeated"
              /\ c_status = "Defeated"
              /\ hero_alice.health.current = 2
              /\ Health_check_status(hero_alice.health) = "Hurt"

\* C28 witness: the reference sequence has returned
C28_Witness ==
    /\ ReferenceLoadout
    /\ c_pc = "done"
    /\ Len(log) = 13
    /\ log[13] = <<"defeated", "Vim">>

\* C29: an attack turn changes at most the defender's health.current:
\* resolve_attack, calculate_hit_rate and calculate_damage change neither
\* combatant, and every step of attack / damage_step leaves the attacker
\* whole and the defender's name, stats, weapon and max health as they were.
C29_OnlyDefenderCurrent ==
    [][/\ (scenario \in {"battle", "limits", "equip"} /\ b_call' # "none")
           => (attacker' = attacker /\ defender' = defender)
       /\ (scenario \in TurnScenarios)
           => LET att_after == IF Turns[c_turn][1] = "hero_alice"
                               THEN hero_alice' ELSE villain_vim'
                  def_after == IF Turns[c_turn][2] = "hero_alice"
                               THEN hero_alice' ELSE villain_vim'
              IN /\ att_after = Att
                 /\ def_after = [Def EXCEPT !.health.current = def_after.health.current]]_vars

\* C29 witness: the first turn of the reference sequence has dealt its
\* damage: Vim differs from the Vim built only in health.current, Alice is
\* as built
C29_Witness ==
    /\ scenario = "combat" /\ c_turn = 1 /\ c_pc = "report"
    /\ hero_alice = give_weapon(Combatant_new("Alice"), Longsword)
    /\ villain_vim = [give_weapon(Combatant_new("Vim"), Longsword)
                        EXCEPT !.health.current = 2]

(***************************************************************************)
(* Claims about fatal errors                                               *)
(***************************************************************************)

\* C11: no operation of the combat core ends in a fatal error: every call of
\* Health::damage, check_status, calculate_hit_rate, resolve_attack and
\* calculate_damage returns, whatever i32 values it is given.
C11_NoFatalError ==
    /\ h_err = "none"
    /\ ~b_panic

(***************************************************************************)
(* Claims about the application shell                                      *)
(***************************************************************************)

\* C21: load_bitmap reports a resource that cannot be found at the path as
\* ResourceNotFound, and OtherError only for the other failures, such as a
\* file that cannot be decoded.
C21_NotFoundReported ==
    (scenario = "loader" /\ l_ret # <<>>) =>
        /\ (~Reader_open(l_file)) => l_ret[1] = LoadError_NotFound
        /\ (l_ret[1] = LoadError_Other) => Reader_open(l_file)

\* C26: whenever the render callback of the game loop runs, a VFC and a
\* render context are registered: render never executes with vfc_mut or
\* render_context_mut returning NotYetRegisteredError.
C26_RenderHasServices ==
    /\ (scenario = "app" /\ a_pc = "updates") =>
           /\ vfc_mut(services).ret # "NotYetRegisteredError"
           /\ render_context_mut(services).ret # "NotYetRegisteredError"
    /\ a_pc # "panic"

\* C27: when the image at the path fails to load, awaiting the ImageFuture
\* yields Err and grab_image returns ImageNotFound, in every interleaving
\* of the browser's events with the polls; the ImageFuture yields Ok only
\* for an image that loaded.
C27_FailedLoadIsErr ==
    scenario = "future" =>
        /\ (f_out = "Ok") => (f_src \in {"image", "cached"} /\ f_state = "available")
        /\ (f_src \in {"missing", "empty"} /\ g_ret # "None")
              => (f_out = "Err" /\ g_ret = "ImageNotFound")

Init ==
    \/ HealthInit \/ BattleInit \/ CombatInit \/ AttackInit
    \/ LimitsInit \/ EquipInit
    \/ ServicesInit \/ InputInit \/ BitmapInit
    \/ LoaderInit \/ AppInit \/ FutureInit

Next ==
    \/ HealthNext \/ BattleNext \/ CombatNext \/ LimitsNext \/ EquipNext
    \/ ServicesNext \/ InputNext \/ BitmapNext
    \/ LoaderNext \/ AppNext \/ FutureNext

Spec == Init /\ [][Next]_vars

====
